---------------------------- MODULE Spec2Model ----------------------------
(***************************************************************************)
(* AI-Resume-Backend (src/main.py): the completion client's cleanup        *)
(* pipeline, the resume layout formatter create_pdf_resume, and the two    *)
(* POST handlers /generate and /generate-pdf.                              *)
(*                                                                         *)
(* A Python str is a sequence of one-character strings.  The alphabet is   *)
(* ASCII plus the bullet glyph U+2022, written BULLET.  A character that   *)
(* has no escape in a TLA+ string is written as the one-element sequence   *)
(* of its \uXXXX name.                                                     *)
(***************************************************************************)
EXTENDS Integers, Sequences, FiniteSets, TLC

VARIABLES
    pc,               \* position of the running function
    resume_text,      \* the handlers' resume_text; create_pdf_resume's argument
    lines,            \* create_pdf_resume: the stripped non-empty lines
    i,                \* create_pdf_resume: index of the next line (0-based)
    story,            \* create_pdf_resume: the blocks emitted so far
    current_section,  \* create_pdf_resume: the section being scanned
    content,          \* cleanup: a completion's message content
    cleaned,          \* cleanup: the pipeline's output for content
    recleaned,        \* cleanup: the pipeline's output for cleaned
    route,            \* the request's route
    data,             \* the request's body
    calls,            \* requests.post calls made for the request
    response,         \* what the completion endpoint answered
    answer            \* the handler's response

pdf_vars == <<resume_text, lines, i, story, current_section>>
cleanup_vars == <<content, cleaned, recleaned>>
http_vars == <<route, data, calls, response, answer>>
vars == <<pc, pdf_vars, cleanup_vars, http_vars>>

---------------------------------------------------------------------------
(* Bounds of the model *)

\* longest run of lines appended after the header lines of an input text
MaxBodyLines == 3

\* longest run of fragments a completion's content is made of
MaxFragments == 3

---------------------------------------------------------------------------
(* Characters and the str methods the program uses *)

BULLET == "\\u2022"

\* what str.strip() removes and what \s matches: the characters of the
\* alphabet for which str.isspace() holds (space, \t, \n, \r, form feed
\* \x0c, vertical tab \x0b and the separators \x1c..\x1f)
WHITESPACE == {" ", "\t", "\n", "\r", "\f",
               "\\u000b", "\\u001c", "\\u001d", "\\u001e", "\\u001f"}

ASCII_UPPER == <<"A", "B", "C", "D", "E", "F", "G", "H", "I", "J", "K", "L", "M",
                 "N", "O", "P", "Q", "R", "S", "T", "U", "V", "W", "X", "Y", "Z">>
ASCII_LOWER == <<"a", "b", "c", "d", "e", "f", "g", "h", "i", "j", "k", "l", "m",
                 "n", "o", "p", "q", "r", "s", "t", "u", "v", "w", "x", "y", "z">>

upper_char(c) ==
    LET hit == {k \in 1..Len(ASCII_LOWER) : ASCII_LOWER[k] = c}
    IN  IF hit = {} THEN c ELSE ASCII_UPPER[CHOOSE k \in hit : TRUE]

\* str.upper()
upper(s) == [k \in 1..Len(s) |-> upper_char(s[k])]

\* smallest and largest member of a non-empty set of integers
min_of(S) == CHOOSE m \in S : \A x \in S : m <= x
max_of(S) == CHOOSE m \in S : \A x \in S : x <= m

\* str.lstrip(chars): drop the leading characters that are in chars
lstrip(s, chars) ==
    LET keep == {k \in 1..Len(s) : s[k] \notin chars}
    IN  IF keep = {} THEN <<>> ELSE SubSeq(s, min_of(keep), Len(s))

\* str.rstrip(chars): drop the trailing characters that are in chars
rstrip(s, chars) ==
    LET keep == {k \in 1..Len(s) : s[k] \notin chars}
    IN  IF keep = {} THEN <<>> ELSE SubSeq(s, 1, max_of(keep))

\* str.strip()
strip(s) == rstrip(lstrip(s, WHITESPACE), WHITESPACE)

\* c in s, for a one-character c
contains(s, c) == \E k \in 1..Len(s) : s[k] = c

\* s.startswith(c), for a one-character c
startswith(s, c) == s # <<>> /\ s[1] = c

\* position of the first c in s (s contains c)
first_index(s, c) == min_of({k \in 1..Len(s) : s[k] = c})

\* str.split(sep), for a one-character sep: one part more than s has seps
split(s, sep) ==
    LET cuts == {k \in 1..Len(s) : s[k] = sep}
        n    == Cardinality(cuts)
        cut(j) == IF j = 0 THEN 0
                  ELSE IF j = n + 1 THEN Len(s) + 1
                  ELSE CHOOSE p \in cuts : Cardinality({q \in cuts : q < p}) = j - 1
    IN  [j \in 1..(n + 1) |-> SubSeq(s, cut(j - 1) + 1, cut(j) - 1)]

RECURSIVE join_upto(_, _, _)
\* sep.join(parts[:n])
join_upto(sep, parts, n) ==
    IF n = 0 THEN <<>>
    ELSE IF n = 1 THEN parts[1]
    ELSE join_upto(sep, parts, n - 1) \o sep \o parts[n]

\* sep.join(parts)
join(sep, parts) == join_upto(sep, parts, Len(parts))

---------------------------------------------------------------------------
(* generate_resume_text: the cleanup substitutions (re.sub, re.IGNORECASE) *)

lower_char(c) ==
    LET hit == {k \in 1..Len(ASCII_UPPER) : ASCII_UPPER[k] = c}
    IN  IF hit = {} THEN c ELSE ASCII_LOWER[CHOOSE k \in hit : TRUE]

\* the literal w matches s at position p, letter case ignored
matches_at(s, p, w) ==
    /\ p >= 1
    /\ p + Len(w) - 1 <= Len(s)
    /\ \A k \in 1..Len(w) : lower_char(s[p + k - 1]) = lower_char(w[k])

\* position of the first "\n" at or after p, Len(s) + 1 without one: where a
\* '.' that started at p must stop
line_end(s, p) ==
    LET nl == {k \in p..Len(s) : s[k] = "\n"}
    IN  IF nl = {} THEN Len(s) + 1 ELSE min_of(nl)

\* position after the greedy \s* that starts at p
skip_whitespace(s, p) ==
    LET ink == {k \in p..Len(s) : s[k] \notin WHITESPACE}
    IN  IF ink = {} THEN Len(s) + 1 ELSE min_of(ink)

\* s from position p on
drop_before(s, p) == SubSeq(s, p, Len(s))

P_HereIs == <<"H", "e", "r", "e", " ", "i", "s">>
P_Heres == <<"H", "e", "r", "e", "'", "s">>
P_Resume == <<"r", "e", "s", "u", "m", "e">>
P_FormattedResume == <<"f", "o", "r", "m", "a", "t", "t", "e", "d", " ",
                       "r", "e", "s", "u", "m", "e">>
P_IHope == <<"I", " ", "h", "o", "p", "e", " ", "t", "h", "i", "s", " ",
             "h", "e", "l", "p", "s">>
P_BasedOn == <<"b", "a", "s", "e", "d", " ", "o", "n">>

\* line 88: re.sub(r'^(Here is|Here\'s).*?resume:?\s*', '', content)
\* the lazy .*? stops at the first "resume" of the first line
sub_here_is(s) ==
    LET pre == IF matches_at(s, 1, P_HereIs) THEN Len(P_HereIs)
               ELSE IF matches_at(s, 1, P_Heres) THEN Len(P_Heres)
               ELSE 0
        e   == line_end(s, pre + 1)
        at  == {q \in (pre + 1)..(e - 1) :
                   q + Len(P_Resume) <= e /\ matches_at(s, q, P_Resume)}
        p   == min_of(at) + Len(P_Resume)
        p2  == IF p <= Len(s) /\ s[p] = ":" THEN p + 1 ELSE p
    IN  IF pre = 0 \/ at = {} THEN s ELSE drop_before(s, skip_whitespace(s, p2))

\* line 89: re.sub(r'^.*formatted resume.*?:\s*', '', content)
\* the greedy .* takes the last "formatted resume" of the first line that a
\* ':' follows on that line, the lazy .*? the first such ':'
sub_formatted_resume(s) ==
    LET e      == line_end(s, 1)
        colons(q) == {c \in (q + Len(P_FormattedResume))..(e - 1) : s[c] = ":"}
        at     == {q \in 1..(e - 1) :
                      /\ q + Len(P_FormattedResume) <= e
                      /\ matches_at(s, q, P_FormattedResume)
                      /\ colons(q) # {}}
    IN  IF at = {} THEN s
        ELSE drop_before(s, skip_whitespace(s, min_of(colons(max_of(at))) + 1))

\* line 90: re.sub(r'I hope this helps.*$', '', content)
\* '$' holds at the end of the string and before a final "\n"
sub_i_hope(s) ==
    LET n  == Len(s)
        at == {q \in 1..n :
                  /\ matches_at(s, q, P_IHope)
                  /\ line_end(s, q + Len(P_IHope)) \in {n, n + 1}}
    IN  IF at = {} THEN s
        ELSE SubSeq(s, 1, min_of(at) - 1)
             \o drop_before(s, line_end(s, min_of(at) + Len(P_IHope)))

\* line 91: re.sub(r'^.*?based on.*?:\s*', '', content)
\* both .*? are lazy: the first "based on" of the first line, the first ':'
\* after it on that line
sub_based_on(s) ==
    LET e      == line_end(s, 1)
        at     == {q \in 1..(e - 1) :
                      q + Len(P_BasedOn) <= e /\ matches_at(s, q, P_BasedOn)}
        colons == {c \in (min_of(at) + Len(P_BasedOn))..(e - 1) : s[c] = ":"}
    IN  IF at = {} THEN s
        ELSE IF colons = {} THEN s
        ELSE drop_before(s, skip_whitespace(s, min_of(colons) + 1))

\* lines 88-93: the four substitutions in order, then the trim
cleanup(s) ==
    strip(sub_based_on(sub_i_hope(sub_formatted_resume(sub_here_is(s)))))

---------------------------------------------------------------------------
(* create_pdf_resume: the layout blocks *)

PROFILE == <<"P", "R", "O", "F", "I", "L", "E">>
EMPLOYMENT_HISTORY == <<"E", "M", "P", "L", "O", "Y", "M", "E", "N", "T", " ",
                        "H", "I", "S", "T", "O", "R", "Y">>
EDUCATION == <<"E", "D", "U", "C", "A", "T", "I", "O", "N">>
SKILLS == <<"S", "K", "I", "L", "L", "S">>
INTERNSHIPS == <<"I", "N", "T", "E", "R", "N", "S", "H", "I", "P", "S">>
REFERENCES == <<"R", "E", "F", "E", "R", "E", "N", "C", "E", "S">>

\* the list of line 141
SECTION_HEADERS ==
    {PROFILE, EMPLOYMENT_HISTORY, EDUCATION, SKILLS, INTERNSHIPS, REFERENCES}

\* the list of line 147
RECORD_SECTIONS == {EMPLOYMENT_HISTORY, EDUCATION, INTERNSHIPS}

\* current_section before its assignment on line 136
UNBOUND == <<"<unbound>">>

\* Paragraph(text, style)
Paragraph(text, style) == [type |-> "Paragraph", text |-> text, style |-> style]

\* Table([[left, right]], colWidths) with VALIGN TOP
Table(left, right, colWidths) ==
    [type |-> "Table", left |-> left, right |-> right, colWidths |-> colWidths]

\* record_row keeping only the part after the first '|' and dropping the rest
record_row_second_part_only(line) ==
    LET parts == [k \in 1..Len(split(line, "|")) |-> strip(split(line, "|")[k])]
    IN  Table(Paragraph(parts[1], "Body"), Paragraph(parts[2], "Date"), <<300, 180>>)

\* lines 148-154: the two-column row of a record line
record_row(line) ==
    LET parts == [k \in 1..Len(split(line, "|")) |-> strip(split(line, "|")[k])]
        left  == parts[1]
        right == join(<<" ", "|", " ">>, Tail(parts))
    IN  Table(Paragraph(left, "Body"), Paragraph(right, "Date"), <<300, 180>>)

\* lines 156-157: the bullet paragraph
bullet_block(line) ==
    LET bullet == strip(lstrip(line, {BULLET, "-", " "}))
    IN  Paragraph(<<BULLET, " ">> \o bullet, "Bullet")

\* lines 159-163: the two-column row of a skills line "category: list"
skill_row(line) ==
    LET k      == first_index(line, ":")
        cat    == SubSeq(line, 1, k - 1)
        skills == SubSeq(line, k + 1, Len(line))
    IN  Table(Paragraph(strip(cat) \o <<":">>, "Body"),
              Paragraph(strip(skills), "Skill"), <<150, 330>>)

\* is_section_header matching a line that only begins with a section word
is_section_header_by_prefix(line) ==
    \E h \in SECTION_HEADERS :
        Len(h) <= Len(line) /\ SubSeq(upper(line), 1, Len(h)) = h

\* line 141: the test for a section header
is_section_header(line) == upper(line) \in SECTION_HEADERS

\* scan_block splitting every '|' line into a row, whatever the section
scan_block_row_in_any_section(section, line) ==
    IF is_section_header(line) THEN Paragraph(upper(line), "SectionTitle")
    ELSE IF contains(line, "|") THEN record_row(line)
    ELSE IF startswith(line, BULLET) \/ startswith(line, "-") THEN bullet_block(line)
    ELSE IF section = SKILLS /\ contains(line, ":") THEN skill_row(line)
    ELSE Paragraph(line, "Body")

\* scan_block testing for a bullet before it tests for a record row
scan_block_bullet_first(section, line) ==
    IF is_section_header(line) THEN Paragraph(upper(line), "SectionTitle")
    ELSE IF startswith(line, BULLET) \/ startswith(line, "-") THEN bullet_block(line)
    ELSE IF section \in RECORD_SECTIONS /\ contains(line, "|") THEN record_row(line)
    ELSE IF section = SKILLS /\ contains(line, ":") THEN skill_row(line)
    ELSE Paragraph(line, "Body")

\* lines 141-165: the block one body line appends, scanned in section
scan_block(section, line) ==
    IF is_section_header(line) THEN Paragraph(upper(line), "SectionTitle")
    ELSE IF section \in RECORD_SECTIONS /\ contains(line, "|") THEN record_row(line)
    ELSE IF startswith(line, BULLET) \/ startswith(line, "-") THEN bullet_block(line)
    ELSE IF section = SKILLS /\ contains(line, ":") THEN skill_row(line)
    ELSE Paragraph(line, "Body")

\* lines 141-142: current_section after one body line
scan_section(section, line) ==
    IF is_section_header(line) THEN upper(line) ELSE section

\* nonempty_lines without its filter: blank lines are kept
nonempty_lines_unfiltered(text) ==
    LET raw == split(text, "\n")
    IN  [k \in 1..Len(raw) |-> strip(raw[k])]

\* line 122: the stripped non-empty lines of the text
nonempty_lines(text) ==
    LET raw == split(text, "\n")
    IN  SelectSeq([k \in 1..Len(raw) |-> strip(raw[k])], LAMBDA l : l # <<>>)

\* the style of the header paragraph at 0-based position k (lines 127, 130, 133)
header_style(k) == <<"Name", "Title", "Contact">>[k + 1]

---------------------------------------------------------------------------
(* Input texts of the formatter *)

H_Name == <<"J", "a", "n", "e", " ", "D", "o", "e">>
H_Title == <<"S", "o", "f", "t", "w", "a", "r", "e", " ",
             "E", "n", "g", "i", "n", "e", "e", "r">>
H_Contact == <<"5", "5", "5", "-", "1", "2", "3", "4", " ", "|", " ",
               "j", "a", "n", "e", "@", "x", ".", "c", "o", "m">>
H_Education == <<"e", "d", "u", "c", "a", "t", "i", "o", "n">>

L_Blank == <<" ", "\f", "\t">>
L_PaddedProfile == <<"\f", " ", "p", "r", "o", "f", "i", "l", "e", "\r", "\\u001c">>
L_ProfileSummary == <<"P", "r", "o", "f", "i", "l", "e", " ",
                      "S", "u", "m", "m", "a", "r", "y">>
L_Skills == <<"S", "K", "I", "L", "L", "S">>
L_EmploymentHistory == <<"E", "m", "p", "l", "o", "y", "m", "e", "n", "t", " ",
                         "H", "i", "s", "t", "o", "r", "y">>
L_Record == <<"E", "n", "g", "i", "n", "e", "e", "r", " ", "|", " ",
              "A", "c", "m", "e", " ", "C", "o", "r", "p", " ", "|", " ",
              "2", "0", "2", "0", "-", "2", "0", "2", "3">>
L_DashPipeColon == <<"-", " ", "a", " ", "|", " ", "b", ":", " ", "c">>
L_SkillPipe == <<"L", "a", "n", "g", "u", "a", "g", "e", "s", ":", " ",
                 "P", "y", "t", "h", "o", "n", " ", "|", " ", "G", "o">>
L_Bullet == <<BULLET, " ", "\f", "B", "u", "i", "l", "t", " ", "t", "h", "i", "n", "g", "s">>

\* the first lines of an input: every prefix of two header triples, the
\* second made of lines the body rules would classify
HeaderPrefixes ==
    LET triples == { <<H_Name, H_Title, H_Contact>>,
                     <<L_Skills, L_DashPipeColon, H_Education>> }
    IN  {SubSeq(t, 1, n) : t \in triples, n \in 0..3}

BodyLines ==
    {L_Blank, L_PaddedProfile, L_ProfileSummary, L_Skills, L_EmploymentHistory,
     L_Record, L_DashPipeColon, L_SkillPipe, L_Bullet}

BodyRuns == UNION {[1..n -> BodyLines] : n \in 0..MaxBodyLines}

ResumeTexts == {join(<<"\n">>, h \o b) : h \in HeaderPrefixes, b \in BodyRuns}

---------------------------------------------------------------------------
(* create_pdf_resume as a state machine *)

PdfIdle ==
    /\ resume_text = <<>>
    /\ lines = <<>>
    /\ i = 0
    /\ story = <<>>
    /\ current_section = UNBOUND

\* the call create_pdf_resume(resume_text)
InitPdf ==
    /\ pc = "split"
    /\ resume_text \in ResumeTexts
    /\ lines = <<>>
    /\ i = 0
    /\ story = <<>>
    /\ current_section = UNBOUND

\* lines 121-123
SplitLines ==
    /\ pc = "split"
    /\ story' = <<>>
    /\ lines' = nonempty_lines(resume_text)
    /\ i' = 0
    /\ pc' = "name"
    /\ UNCHANGED <<resume_text, current_section, cleanup_vars, http_vars>>

\* header_step running the body rules on a header line
header_step_classified(style) ==
    IF i < Len(lines)
    THEN /\ story' = Append(story, scan_block(<<>>, lines[i + 1]))
         /\ i' = i + 1
    ELSE UNCHANGED <<story, i>>

\* one of the three "if i < len(lines)" of lines 126-134
header_step(style) ==
    IF i < Len(lines)
    THEN /\ story' = Append(story, Paragraph(lines[i + 1], style))
         /\ i' = i + 1
    ELSE UNCHANGED <<story, i>>

\* lines 126-128
HeaderName ==
    /\ pc = "name"
    /\ header_step(header_style(0))
    /\ pc' = "title"
    /\ UNCHANGED <<resume_text, lines, current_section, cleanup_vars, http_vars>>

\* lines 129-131
HeaderTitle ==
    /\ pc = "title"
    /\ header_step(header_style(1))
    /\ pc' = "contact"
    /\ UNCHANGED <<resume_text, lines, current_section, cleanup_vars, http_vars>>

\* lines 132-136
HeaderContact ==
    /\ pc = "contact"
    /\ header_step(header_style(2))
    /\ current_section' = <<>>
    /\ pc' = "scan"
    /\ UNCHANGED <<resume_text, lines, cleanup_vars, http_vars>>

\* lines 138-167: one iteration of the while loop
ScanLine ==
    /\ pc = "scan"
    /\ i < Len(lines)
    /\ LET line == lines[i + 1]
       IN  /\ current_section' = scan_section(current_section, line)
           /\ story' = Append(story, scan_block(current_section, line))
    /\ i' = i + 1
    /\ UNCHANGED <<pc, resume_text, lines, cleanup_vars, http_vars>>

\* lines 138, 169-171: the loop ends and the story is built
Build ==
    /\ pc = "scan"
    /\ ~(i < Len(lines))
    /\ pc' = "built"
    /\ UNCHANGED <<pdf_vars, cleanup_vars, http_vars>>

---------------------------------------------------------------------------
(* The cleanup pipeline applied to a completion's content, and again to
   its own output *)

F_HereIs == <<"H", "e", "r", "e", " ", "i", "s", " ", "t", "h", "e", " ">>
F_Heres == <<"H", "E", "R", "E", "'", "S", " ", "m", "y", " ">>
F_Resume == <<"R", "e", "s", "u", "m", "e">>
F_Formatted == <<"f", "o", "r", "m", "a", "t", "t", "e", "d", " ",
                 "r", "e", "s", "u", "m", "e">>
F_IHope == <<"I", " ", "h", "o", "p", "e", " ", "t", "h", "i", "s", " ",
             "h", "e", "l", "p", "s", "!">>
F_BasedOn == <<"B", "a", "s", "e", "d", " ", "o", "n", " ", "x">>
F_Colon == <<":", " ">>
F_Newline == <<"\n">>
F_FormFeed == <<"\f", "\\u000b">>
F_Jane == <<"J", "a", "n", "e">>

Fragments ==
    {F_HereIs, F_Heres, F_Resume, F_Formatted, F_IHope, F_BasedOn, F_Colon,
     F_Newline, F_FormFeed, F_Jane}

FragmentRuns == UNION {[1..n -> Fragments] : n \in 0..MaxFragments}

\* "Here is a resume based on your details:\nHere is the formatted resume:\nJane Doe"
T_Preambles ==
    <<"H", "e", "r", "e", " ", "i", "s", " ", "a", " ", "r", "e", "s", "u", "m", "e", " ",
      "b", "a", "s", "e", "d", " ", "o", "n", " ", "y", "o", "u", "r", " ",
      "d", "e", "t", "a", "i", "l", "s", ":", "\n",
      "H", "e", "r", "e", " ", "i", "s", " ", "t", "h", "e", " ",
      "f", "o", "r", "m", "a", "t", "t", "e", "d", " ", "r", "e", "s", "u", "m", "e", ":", "\n",
      "J", "a", "n", "e", " ", "D", "o", "e">>

\* a resume with two sections, padded with whitespace
T_Resume ==
    <<" ">> \o join(<<"\n">>, <<H_Name, H_Title, H_Contact, L_EmploymentHistory,
                               L_Record, L_Skills, L_SkillPipe>>) \o <<"\n">>

Contents ==
    {join(<<>>, r) : r \in FragmentRuns} \cup {T_Preambles, T_Resume}

CleanupIdle ==
    /\ content = <<>>
    /\ cleaned = <<>>
    /\ recleaned = <<>>

InitCleanup ==
    /\ pc = "content"
    /\ content \in Contents
    /\ cleaned = <<>>
    /\ recleaned = <<>>

\* lines 85-93 on the message content
CleanOnce ==
    /\ pc = "content"
    /\ cleaned' = cleanup(strip(content))
    /\ pc' = "cleaned"
    /\ UNCHANGED <<content, recleaned, pdf_vars, http_vars>>

\* lines 85-93 on their own output
CleanAgain ==
    /\ pc = "cleaned"
    /\ recleaned' = cleanup(strip(cleaned))
    /\ pc' = "recleaned"
    /\ UNCHANGED <<content, cleaned, pdf_vars, http_vars>>

---------------------------------------------------------------------------
(* The handlers generate_resume and generate_pdf_resume *)

\* Python's None, and a key a dict does not hold
None == <<"<None>">>
MISSING == <<"<missing>">>

N_Jane == <<"J", "a", "n", "e", " ", "D", "o", "e">>
E_Jane == <<"j", "a", "n", "e", "@", "x", ".", "c", "o", "m">>

ROUTES == {"/generate", "/generate-pdf"}

\* request bodies: no JSON body at all, the JSON literal null, or an object
\* whose name and email are each missing, empty or a text
RequestBodies ==
    {[json |-> "absent"], [json |-> "null"]}
    \cup {[json |-> "object", name |-> n, email |-> e] :
             n \in {MISSING, <<>>, N_Jane}, e \in {MISSING, <<>>, E_Jane}}

\* lines 177, 196: request.get_json().  Flask raises (400 BadRequest, 415
\* UnsupportedMediaType) when there is no JSON body to parse, and only a
\* release before 2.1 returns None for a body not declared as JSON; the
\* literal null parses to None.
get_json(body) ==
    CASE body.json = "absent" -> {"raise", "None"}
      [] body.json = "null"   -> {"None"}
      [] OTHER                -> {"dict"}

\* data.get(key)
dict_get(body, key) ==
    IF key = "name" THEN (IF body.name = MISSING THEN None ELSE body.name)
    ELSE (IF body.email = MISSING THEN None ELSE body.email)

\* the truth value of a str or None
truthy(v) == v # None /\ v # <<>>

\* lines 179, 198: not data or not data.get('name') or not data.get('email')
\* (a dict is false only when empty, and then both gets are None)
fails_validation(got, body) ==
    \/ got = "None"
    \/ ~truthy(dict_get(body, "name"))
    \/ ~truthy(dict_get(body, "email"))

Answer(status, error, payload) ==
    [status |-> status, error |-> error, payload |-> payload]

NoAnswer == Answer(0, "", <<>>)
NoResponse == [transport |-> "none"]

\* a value response.json() returns, by its JSON type; an object is the
\* sequence of its entries, whose keys are distinct
JNull == [t |-> "null"]
JBool == [t |-> "bool"]
JNumber == [t |-> "number"]
JString(s) == [t |-> "string", s |-> s]
JArray(items) == [t |-> "array", items |-> items]
JObject(entries) == [t |-> "object", entries |-> entries]
JEntry(k, v) == [k |-> k, v |-> v]

\* a body response.json() cannot parse
NOT_JSON == [t |-> "not_json"]

K_choices == <<"c", "h", "o", "i", "c", "e", "s">>
K_message == <<"m", "e", "s", "s", "a", "g", "e">>
K_content == <<"c", "o", "n", "t", "e", "n", "t">>
K_error == <<"e", "r", "r", "o", "r">>

\* None, True and 1 are not containers: "in", len() and a subscript raise
\* TypeError on them
is_scalar(v) == v.t \in {"null", "bool", "number"}

\* key in v, for a str key and a container v: a substring of a str, a member
\* of a list, a key of a dict
py_in(key, v) ==
    CASE v.t = "string" ->
            \E p \in 1..(Len(v.s) - Len(key) + 1) :
                SubSeq(v.s, p, p + Len(key) - 1) = key
      [] v.t = "array"  ->
            \E j \in 1..Len(v.items) :
                v.items[j].t = "string" /\ v.items[j].s = key
      [] v.t = "object" -> \E j \in 1..Len(v.entries) : v.entries[j].k = key
      [] OTHER          -> FALSE

\* len(v), for a container v
py_len(v) ==
    CASE v.t = "string" -> Len(v.s)
      [] v.t = "array"  -> Len(v.items)
      [] OTHER          -> Len(v.entries)

\* v[key] raises, for a str key: only a dict that holds the key answers
getitem_raises(v, key) == ~(v.t = "object" /\ py_in(key, v))

\* v[key], for a dict v that holds the key
getitem(v, key) ==
    v.entries[CHOOSE j \in 1..Len(v.entries) : v.entries[j].k = key].v

\* v[0] raises: an empty str or list, a dict (its keys are strs), a scalar
first_raises(v) ==
    CASE v.t = "string" -> Len(v.s) = 0
      [] v.t = "array"  -> Len(v.items) = 0
      [] OTHER          -> TRUE

\* v[0], for a non-empty str or list v
first(v) == IF v.t = "string" THEN JString(<<v.s[1]>>) ELSE v.items[1]

CompletionTexts == {<<>>, F_IHope, T_Preambles, T_Resume}

\* values of the content, message, first-choice and choices positions of a
\* body, and the bodies
ContentValues == {JNull, JNumber} \cup {JString(t) : t \in CompletionTexts}

MessageValues ==
    {JNull, JString(F_Jane), JObject(<<>>)}
    \cup {JObject(<<JEntry(K_content, c)>>) : c \in ContentValues}

ChoiceValues ==
    {JNull, JString(F_Jane), JObject(<<>>)}
    \cup {JObject(<<JEntry(K_message, m)>>) : m \in MessageValues}

ChoicesValues ==
    {JNull, JNumber, JString(<<>>), JString(F_Jane), JObject(<<>>),
     JObject(<<JEntry(<<"a">>, JNumber)>>), JArray(<<>>)}
    \cup {JArray(<<c>>) : c \in ChoiceValues}
    \cup {JArray(<<JNull, c>>) : c \in ChoiceValues}
    \cup {JArray(<<c, JNull>>) : c \in ChoiceValues}

ResultValues ==
    {NOT_JSON, JNull, JBool, JNumber, JString(F_Jane), JString(K_choices),
     JString(F_Jane \o K_choices), JArray(<<>>), JArray(<<JNumber, JNumber>>),
     JArray(<<JNumber, JString(K_choices)>>), JObject(<<>>),
     JObject(<<JEntry(K_error, JObject(<<>>))>>)}
    \cup {JObject(<<JEntry(K_choices, cs)>>) : cs \in ChoicesValues}
    \cup {JObject(<<JEntry(K_error, JNull), JEntry(K_choices, cs)>>) :
             cs \in ChoicesValues}

CompletionResponses ==
    {[transport |-> "error"]}
    \cup {[transport |-> "ok", status |-> st, body |-> b] :
             st \in {200, 401, 500}, b \in ResultValues}

\* a statement of the try block raised
raised(statement) == [raise |-> statement, value |-> None]

\* the try block ended without raising: with the return of line 93, or past
\* the if of line 84 to the end of the function
returned(value) == [raise |-> "", value |-> value]

\* lines 81-93: the try block on the endpoint's answer r, statement by
\* statement: the one that raises, or the value returned
try_block(r) ==
    IF r.transport = "error" THEN raised("requests.post")
    ELSE IF r.body.t = "not_json" THEN raised("response.json")
    ELSE LET result == r.body IN
    IF is_scalar(result) THEN raised("'choices' in result")
    ELSE IF ~py_in(K_choices, result) THEN returned(None)
    ELSE IF getitem_raises(result, K_choices) THEN raised("result['choices']")
    ELSE LET choices == getitem(result, K_choices) IN
    IF is_scalar(choices) THEN raised("len(result['choices'])")
    ELSE IF ~(py_len(choices) > 0) THEN returned(None)
    ELSE IF first_raises(choices) THEN raised("result['choices'][0]")
    ELSE LET choice == first(choices) IN
    IF getitem_raises(choice, K_message) THEN raised("['message']")
    ELSE LET message == getitem(choice, K_message) IN
    IF getitem_raises(message, K_content) THEN raised("['content']")
    ELSE LET text == getitem(message, K_content) IN
    IF text.t # "string" THEN raised(".strip")
    ELSE returned(cleanup(strip(text.s)))

\* lines 81-85: the statement of the try block that raises on this answer
\* ("" when none does)
raising_line(r) == try_block(r).raise

\* generate_resume_text without its try/except: the exception escapes
generate_resume_text_uncaught(r) ==
    LET t == try_block(r)
    IN  IF t.raise # "" THEN [kind |-> "raise", value |-> None]
        ELSE [kind |-> "return", value |-> t.value]

\* lines 65-96: what generate_resume_text does with the endpoint's answer:
\* every exception is caught and None returned (lines 94-96); without a
\* first choice the function falls off its end and returns None
generate_resume_text(r) ==
    LET t == try_block(r)
    IN  IF t.raise # "" THEN [kind |-> "return", value |-> None]
        ELSE [kind |-> "return", value |-> t.value]

\* line 206: the download name
download_name(name) ==
    [k \in 1..Len(name) |-> IF name[k] = " " THEN "_" ELSE name[k]]
    \o <<"_", "r", "e", "s", "u", "m", "e", ".", "p", "d", "f">>

HttpIdle ==
    /\ route = ""
    /\ data = [json |-> "absent"]
    /\ calls = 0
    /\ response = NoResponse
    /\ answer = NoAnswer

InitHttp ==
    /\ pc = "request"
    /\ route \in ROUTES
    /\ data \in RequestBodies
    /\ calls = 0
    /\ response = NoResponse
    /\ answer = NoAnswer

\* lines 176-180 and 195-199, with the except of lines 189 and 215
validate(r) ==
    /\ pc = "request"
    /\ route = r
    /\ \E got \in get_json(data) :
          IF got = "raise"
          THEN /\ answer' = Answer(500, "str(e)", <<>>)
               /\ pc' = "answered"
          ELSE IF fails_validation(got, data)
          THEN /\ answer' = Answer(400, "Name and email are required", <<>>)
               /\ pc' = "answered"
          ELSE /\ answer' = answer
               /\ pc' = "post"
    /\ UNCHANGED <<route, data, calls, response, pdf_vars, cleanup_vars>>

generate_resume_validate == validate("/generate")

generate_pdf_resume_validate == validate("/generate-pdf")

\* line 81: the one outbound call of generate_resume_text
requests_post ==
    /\ pc = "post"
    /\ calls' = calls + 1
    /\ response' \in CompletionResponses
    /\ pc' = "parse"
    /\ UNCHANGED <<route, data, answer, pdf_vars, cleanup_vars>>

\* lines 182-190
generate_resume_respond ==
    /\ pc = "parse"
    /\ route = "/generate"
    /\ LET got == generate_resume_text(response)
       IN  IF got.kind = "raise"
           THEN /\ answer' = Answer(500, "str(e)", <<>>)
                /\ UNCHANGED resume_text
           ELSE /\ resume_text' = got.value
                /\ answer' = IF truthy(got.value)
                             THEN Answer(200, "", [resume |-> got.value, success |-> TRUE])
                             ELSE Answer(500, "Failed to generate resume", <<>>)
    /\ pc' = "answered"
    /\ UNCHANGED <<route, data, calls, response, lines, i, story,
                   current_section, cleanup_vars>>

\* lines 201-205, to the call of create_pdf_resume
generate_pdf_resume_respond ==
    /\ pc = "parse"
    /\ route = "/generate-pdf"
    /\ LET got == generate_resume_text(response)
       IN  IF got.kind = "raise"
           THEN /\ answer' = Answer(500, "str(e)", <<>>)
                /\ pc' = "answered"
                /\ UNCHANGED resume_text
           ELSE /\ resume_text' = got.value
                /\ IF truthy(got.value)
                   THEN /\ answer' = answer
                        /\ pc' = "split"
                   ELSE /\ answer' = Answer(500, "Failed to generate resume", <<>>)
                        /\ pc' = "answered"
    /\ UNCHANGED <<route, data, calls, response, lines, i, story,
                   current_section, cleanup_vars>>

\* lines 205-213: create_pdf_resume has returned the built document
generate_pdf_resume_send ==
    /\ pc = "built"
    /\ route = "/generate-pdf"
    /\ answer' = Answer(200, "", [download_name |-> download_name(dict_get(data, "name")),
                                  mimetype |-> "application/pdf",
                                  document |-> story])
    /\ pc' = "answered"
    /\ UNCHANGED <<route, data, calls, response, pdf_vars, cleanup_vars>>

---------------------------------------------------------------------------
(* Specifications *)

\* create_pdf_resume on every input text
Init == InitPdf /\ CleanupIdle /\ HttpIdle

Next ==
    \/ SplitLines
    \/ HeaderName
    \/ HeaderTitle
    \/ HeaderContact
    \/ ScanLine
    \/ Build

Spec == Init /\ [][Next]_vars

\* the cleanup pipeline on every content, twice
InitC == InitCleanup /\ PdfIdle /\ HttpIdle

NextC == CleanOnce \/ CleanAgain

SpecCleanup == InitC /\ [][NextC]_vars

\* one request to /generate or /generate-pdf
InitH == InitHttp /\ PdfIdle /\ CleanupIdle

NextH ==
    \/ generate_resume_validate
    \/ generate_pdf_resume_validate
    \/ requests_post
    \/ generate_resume_respond
    \/ generate_pdf_resume_respond
    \/ SplitLines
    \/ HeaderName
    \/ HeaderTitle
    \/ HeaderContact
    \/ ScanLine
    \/ Build
    \/ generate_pdf_resume_send

SpecHttp == InitH /\ [][NextH]_vars

---------------------------------------------------------------------------
(* Vocabulary of the formatter claims *)

\* the kind of layout block b
BlockKind(b) ==
    IF b.type = "Table"
    THEN IF b.right.style = "Date" THEN "record_row" ELSE "key_value_row"
    ELSE CASE b.style = "SectionTitle" -> "section_header"
           [] b.style = "Bullet"       -> "bullet"
           [] b.style = "Body"         -> "paragraph"
           [] OTHER                    -> "header"

\* a step of the body scan is about to read lines[i + 1]
Scanning == pc = "scan" /\ i < Len(lines)

\* the block the step appends
Emitted == story'[Len(story')]

\* number of '|' in s
PipeCount(s) == Cardinality({k \in 1..Len(s) : s[k] = "|"})

StripEach(parts) == [k \in 1..Len(parts) |-> strip(parts[k])]

Min3(n) == IF n < 3 THEN n ELSE 3

---------------------------------------------------------------------------
(* C4 *)

\* C4 as stated: a body line containing '|' that is scanned while
\* current_section is empty or SKILLS is emitted as a plain paragraph.
C4_PipeLineIsPlainParagraph ==
    [][ (Scanning /\ contains(lines[i + 1], "|")
                  /\ current_section \in {<<>>, SKILLS})
        => (Len(story') = Len(story) + 1 /\ BlockKind(Emitted) = "paragraph") ]_vars

\* C4 amended: a body line containing '|' that is scanned while
\* current_section is empty or SKILLS is never emitted as a record row; it is
\* a bullet block when it starts with the bullet glyph or '-', otherwise a
\* key/value row when current_section is SKILLS and it contains ':', and a
\* plain paragraph in every other case.
C4_PipeLineIsNeverRecordRow ==
    [][ (Scanning /\ contains(lines[i + 1], "|")
                  /\ current_section \in {<<>>, SKILLS})
        => LET line == lines[i + 1]
           IN  /\ Len(story') = Len(story) + 1
               /\ BlockKind(Emitted) # "record_row"
               /\ BlockKind(Emitted) =
                     IF line[1] \in {BULLET, "-"} THEN "bullet"
                     ELSE IF current_section = SKILLS /\ contains(line, ":")
                          THEN "key_value_row"
                          ELSE "paragraph" ]_vars

\* a '|' line was scanned in SKILLS and became a plain paragraph
C4_Witness ==
    /\ pc = "scan" /\ i > 3
    /\ current_section = SKILLS
    /\ lines[i] = L_Record
    /\ story[i] = Paragraph(L_Record, "Body")

---------------------------------------------------------------------------
(* C5 *)

\* C5: current_section starts empty when the body scan begins and changes
\* only in a scan step whose line, uppercased, equals a section word; it then
\* becomes that word and a section-header block is emitted.  Every other
\* line leaves it unchanged and emits no section-header block.
C5_SectionChangesOnlyOnExactHeader ==
    [][ /\ (pc = "contact" => current_section' = <<>>)
        /\ (Scanning =>
               IF upper(lines[i + 1]) \in SECTION_HEADERS
               THEN /\ current_section' = upper(lines[i + 1])
                    /\ Emitted = Paragraph(upper(lines[i + 1]), "SectionTitle")
               ELSE /\ current_section' = current_section
                    /\ BlockKind(Emitted) # "section_header")
        /\ (~Scanning /\ pc # "contact" => current_section' = current_section)
      ]_vars

\* "profile" opened PROFILE, then "Profile Summary" was scanned and left it
C5_Witness ==
    /\ pc = "scan" /\ i > 4
    /\ lines[i - 1] = <<"p", "r", "o", "f", "i", "l", "e">>
    /\ story[i - 1] = Paragraph(PROFILE, "SectionTitle")
    /\ lines[i] = L_ProfileSummary
    /\ story[i] = Paragraph(L_ProfileSummary, "Body")
    /\ current_section = PROFILE

---------------------------------------------------------------------------
(* C7 *)

\* the rules of C7 in their order
C7_FirstRule(section, line) ==
    CASE upper(line) \in SECTION_HEADERS                     -> "section_header"
      [] upper(line) \notin SECTION_HEADERS
         /\ section \in {EMPLOYMENT_HISTORY, EDUCATION, INTERNSHIPS}
         /\ contains(line, "|")                              -> "record_row"
      [] OTHER ->
           IF line[1] \in {BULLET, "-"} THEN "bullet"
           ELSE IF section = SKILLS /\ contains(line, ":") THEN "key_value_row"
           ELSE "paragraph"

\* C7: the kind of block a body line emits is decided by the first rule that
\* applies, in the order section header, record row, bullet, key/value row,
\* plain paragraph; a '-' line with '|' in a record section is a record row
\* and a bullet line with ':' in SKILLS is a bullet.
C7_FirstApplicableRuleDecides ==
    [][ Scanning =>
          LET line == lines[i + 1]
          IN  /\ BlockKind(Emitted) = C7_FirstRule(current_section, line)
              /\ (line[1] = "-" /\ contains(line, "|")
                  /\ current_section \in RECORD_SECTIONS
                    => BlockKind(Emitted) = "record_row")
              /\ (line[1] \in {BULLET, "-"} /\ contains(line, ":")
                  /\ current_section = SKILLS
                    => BlockKind(Emitted) = "bullet") ]_vars

\* "- a | b: c" was scanned in EMPLOYMENT HISTORY and became a record row
C7_Witness ==
    /\ pc = "scan" /\ i > 3
    /\ current_section = EMPLOYMENT_HISTORY
    /\ lines[i] = L_DashPipeColon
    /\ BlockKind(story[i]) = "record_row"

---------------------------------------------------------------------------
(* C8 *)

\* C8: the first min(3, n) lines are emitted as the Name, Title and Contact
\* paragraphs whatever they contain; the header steps emit nothing else, leave
\* current_section unset, and it is empty when the body scan begins; with
\* fewer than three lines nothing is padded.
C8_HeaderLinesArePositional ==
    LET n == Len(lines)
        done == CASE pc = "name"    -> 0
                  [] pc = "title"   -> 1
                  [] pc = "contact" -> 2
                  [] OTHER          -> 3
    IN  pc # "split" =>
          /\ Len(story) >= Min3(IF done < n THEN done ELSE n)
          /\ \A k \in 1..Min3(IF done < n THEN done ELSE n) :
                story[k] = Paragraph(lines[k], <<"Name", "Title", "Contact">>[k])
          /\ (pc \in {"name", "title", "contact"} =>
                /\ Len(story) = (IF done < n THEN done ELSE n)
                /\ current_section = UNBOUND)
          /\ (pc = "scan" /\ i = Min3(n) => current_section = <<>>)
          /\ (pc \in {"scan", "built"} /\ n < 3 => Len(story) = n)

\* the header lines "SKILLS" and "- a | b: c" became the Name and Title
\* paragraphs and the body scan begins with an empty current_section
C8_Witness ==
    /\ pc = "scan" /\ i = 3
    /\ lines[1] = L_Skills /\ lines[2] = L_DashPipeColon
    /\ story[1] = Paragraph(L_Skills, "Name")
    /\ story[2] = Paragraph(L_DashPipeColon, "Title")
    /\ BlockKind(story[3]) = "header"
    /\ current_section = <<>>

---------------------------------------------------------------------------
(* C9 *)

\* the raw lines that hold a character other than whitespace, in order
C9_DropBlank(raw) ==
    SelectSeq(raw, LAMBDA l : \E k \in 1..Len(l) : l[k] \notin WHITESPACE)

\* every block some rule can make of the one line l
C9_BlocksOf(l) ==
    {Paragraph(l, s) : s \in {"Name", "Title", "Contact", "Body"}}
    \cup {Paragraph(upper(l), "SectionTitle"), bullet_block(l)}
    \cup (IF contains(l, "|") THEN {record_row(l)} ELSE {})
    \cup (IF contains(l, ":") THEN {skill_row(l)} ELSE {})

C9_Inv ==
    \A kept \in {C9_DropBlank(split(resume_text, "\n"))} :
        pc # "split" =>
          /\ Len(lines) = Len(kept)
          /\ Len(story) = i
          /\ i <= Len(kept)
          /\ \A k \in 1..Len(story) :
                \E l \in {strip(kept[k])} : story[k] \in C9_BlocksOf(l)

\* stages and lines still ahead of the scan: 0 exactly when it has ended
C9_Remaining ==
    CASE pc = "split"   -> 5 + Len(C9_DropBlank(split(resume_text, "\n")))
      [] pc = "name"    -> 4 + (Len(lines) - i)
      [] pc = "title"   -> 3 + (Len(lines) - i)
      [] pc = "contact" -> 2 + (Len(lines) - i)
      [] pc = "scan"    -> 1 + (Len(lines) - i)
      [] OTHER          -> 0

\* C9: the scan terminates (every step brings its end nearer, and it stops
\* only with the story built); at every point the story holds exactly i
\* blocks, the k-th made of the k-th non-empty line alone, so the built
\* document has one block per non-empty input line, in input order.
C9_OneBlockPerLine ==
    [][ /\ C9_Inv
        /\ C9_Remaining' < C9_Remaining /\ C9_Remaining' >= 0
        /\ pc' \in {"name", "title", "contact", "scan", "built"}
        /\ (pc' = "scan" => Len(story') = i' /\ i' <= Len(lines'))
        /\ (pc' = "built" =>
              /\ story' = story /\ lines' = lines /\ resume_text' = resume_text
              /\ Len(story) = Len(lines) /\ i = Len(lines)) ]_vars

\* a text with blank lines between its lines was built
C9_Witness ==
    /\ pc = "built"
    /\ Len(split(resume_text, "\n")) > Len(story)
    /\ Len(story) >= 5

---------------------------------------------------------------------------
(* C10 *)

\* C10: in every record row the left cell is the text before the first '|'
\* and the right cell is all remaining parts in order, rejoined with " | ":
\* a line with k pipes gives a right cell with k - 1 pipes.
C10_RecordRowKeepsAllParts ==
    \A k \in 1..Len(story) :
        (story[k].type = "Table" /\ BlockKind(story[k]) = "record_row") =>
            LET line  == lines[k]
                left  == story[k].left.text
                right == story[k].right.text
            IN  /\ left = strip(SubSeq(line, 1, first_index(line, "|") - 1))
                /\ PipeCount(right) = PipeCount(line) - 1
                /\ StripEach(split(right, "|")) = StripEach(Tail(split(line, "|")))
                /\ (PipeCount(line) > 1 =>
                      LET rest == SubSeq(line, first_index(line, "|") + 1, Len(line))
                      IN  right = strip(SubSeq(rest, 1, first_index(rest, "|") - 1))
                                  \o <<" ", "|", " ">>
                                  \o join(<<" ", "|", " ">>,
                                          Tail(StripEach(split(rest, "|")))))

\* "Engineer | Acme Corp | 2020-2023" became the row
\* ("Engineer", "Acme Corp | 2020-2023")
C10_Witness ==
    \E k \in 1..Len(story) :
        /\ lines[k] = L_Record
        /\ story[k].type = "Table"
        /\ story[k].left.text = <<"E", "n", "g", "i", "n", "e", "e", "r">>
        /\ story[k].right.text = <<"A", "c", "m", "e", " ", "C", "o", "r", "p", " ", "|", " ",
                                   "2", "0", "2", "0", "-", "2", "0", "2", "3">>

---------------------------------------------------------------------------
(* Vocabulary of the handler claims *)

\* the request must be refused: no JSON body, or no name, or no email
InvalidRequest ==
    /\ route \in ROUTES
    /\ IF data.json = "object"
       THEN data.name \in {MISSING, <<>>} \/ data.email \in {MISSING, <<>>}
       ELSE TRUE

\* generate_resume_text has returned to the handler
Generated == route \in ROUTES /\ pc \notin {"request", "post", "parse"}

\* the handler answered 500 with the generic message
GenericFailure ==
    /\ pc = "answered"
    /\ answer = Answer(500, "Failed to generate resume", <<>>)

---------------------------------------------------------------------------
(* C1 *)

\* C1: a request whose JSON body is absent, or whose name or email is missing
\* or empty, is answered 400 with an error body, and no outbound completion
\* call is made for it before or after the answer.
C1_InvalidRequestAnswers400 ==
    InvalidRequest =>
        /\ calls = 0
        /\ response = NoResponse
        /\ pc \in {"request", "answered"}
        /\ (pc = "answered" => answer.status = 400 /\ answer.error # "")

---------------------------------------------------------------------------
(* C2 *)

\* C2: when the completion endpoint answers with a non-2xx status, whatever
\* the body, or the call fails in transport, or the body is not valid JSON,
\* generate_resume_text returns no text and the handler answers 500 with the
\* generic failure message.
C2_Non2xxIsGenerationFailure ==
    ( /\ Generated
      /\ \/ response.transport = "error"
         \/ /\ response.transport = "ok"
            /\ (response.status \notin 200..299 \/ response.body.t = "not_json") )
    => (resume_text \in {None, <<>>} /\ GenericFailure)

---------------------------------------------------------------------------
(* C3 *)

\* the entry of key in the JSON value v, when v is an object that holds it
C3_Has(v, key) ==
    v.t = "object" /\ \E e \in {v.entries[j] : j \in 1..Len(v.entries)} : e.k = key
C3_Get(v, key) ==
    (CHOOSE e \in {v.entries[j] : j \in 1..Len(v.entries)} : e.k = key).v

\* the parsed body has no choices entry
C3_NoChoices(b) == ~C3_Has(b, K_choices)

\* its choices entry is not a list, or is the empty list
C3_NoFirstChoice(b) ==
    /\ C3_Has(b, K_choices)
    /\ LET cs == C3_Get(b, K_choices)
       IN  cs.t # "array" \/ cs.items = <<>>

\* its first choice holds no message with a text content
C3_FirstChoiceWithoutContent(b) ==
    /\ C3_Has(b, K_choices)
    /\ LET cs == C3_Get(b, K_choices)
       IN  /\ cs.t = "array"
           /\ cs.items # <<>>
           /\ LET c == Head(cs.items)
              IN  \/ ~C3_Has(c, K_message)
                  \/ ~C3_Has(C3_Get(c, K_message), K_content)
                  \/ C3_Get(C3_Get(c, K_message), K_content).t # "string"

\* C3: when the parsed body of the completion's answer has no choices entry,
\* or an empty choices list (or a choices entry that is no list), or a first
\* choice without message content, generate_resume_text returns None, no
\* exception escapes it, and the handler ends the request with the generic
\* 500 answer.
C3_NoUsableChoiceIsFailure ==
    ( /\ Generated
      /\ response.transport = "ok"
      /\ response.body.t # "not_json"
      /\ \/ C3_NoChoices(response.body)
         \/ C3_NoFirstChoice(response.body)
         \/ C3_FirstChoiceWithoutContent(response.body) )
    => (resume_text = None /\ GenericFailure)

\* /generate-pdf ended with the 500 answer on a 200 completion whose body is
\* {"choices": [{}]}: the first choice holds no message and line 85 raises
C3_Witness ==
    /\ pc = "answered"
    /\ route = "/generate-pdf"
    /\ calls = 1
    /\ response.transport = "ok"
    /\ response.status = 200
    /\ response.body = JObject(<<JEntry(K_choices, JArray(<<JObject(<<>>)>>))>>)
    /\ raising_line(response) = "['message']"
    /\ resume_text = None
    /\ answer.status = 500

---------------------------------------------------------------------------
(* C6 *)

\* C6: the cleanup pipeline is idempotent: applied to its own output it
\* yields that output again.
C6_CleanupIsIdempotent == pc = "recleaned" => recleaned = cleaned

===========================================================================
